---- MODULE Spec2Model ----
(***************************************************************************)
(* NeovoltClient (custom_components/bytewatt/api/neovolt_client.py):       *)
(* session token, login with fallback, device list and battery data.       *)
(* Every caller is a coroutine on one event loop: a caller runs without    *)
(* interruption from one await to the next, so each action below is the    *)
(* code between two awaits (a request is sent at the end of an action and  *)
(* its answer is handled at the start of the next one).                    *)
(***************************************************************************)
EXTENDS Integers, Sequences, FiniteSets, TLC

VARIABLES
    token,      \* self.token of the one NeovoltClient the callers share
    call,       \* per caller: the frame of its running public operation
    issued,     \* history: the values successful logins assigned to self.token
    concurrent, \* whether callers may overlap (fixed by the initial state)
    flow        \* the configuration flow the host is running

vars == <<token, call, issued, concurrent, flow>>

----------------------------------------------------------------------------
(* Values.  Python's None is the empty tuple and a string or number v is  *)
(* the one-element tuple <<v>>, so that every value has the same shape.   *)

None == <<>>
Str(s) == <<s>>
Num(n) == <<n>>

\* Python truthiness of self.token: None and "" are falsy.
Truthy(v) == v # None /\ v # Str("")

Callers == {"c1", "c2"}

\* How many 401 answers the server gives to the data requests of one invocation.
Max401 == 2

\* The same, for an invocation that overlaps with another caller's.
MaxOverlapping401 == 1

TokenValues == {None, Str(""), Str("tokA"), Str("tokB")}

\* A JSON key: <<>> when the key is missing, <<v>> when it is present with value v.
Missing == <<>>
Present(v) == <<v>>
TokFields == {Missing} \cup {Present(v) : v \in TokenValues}

\* The "data" member of a login answer: missing, null, or an object (which
\* is falsy when it is empty) that may hold a "token" key.
LoginDataFields ==
    {[kind |-> k, token |-> Missing] : k \in {"missing", "null", "empty"}}
    \cup {[kind |-> "dict", token |-> t] : t \in TokFields}

LoginBodies == [token : TokFields, data : LoginDataFields]

NoBody == [token |-> Missing, data |-> [kind |-> "missing", token |-> Missing]]

\* What a request can end in.  net: the awaited request returned a response,
\* raised aiohttp.ClientError, or was cut by asyncio.timeout(DEFAULT_TIMEOUT)
\* ("Deadline").  read: whether awaiting the body (text() or json()) raised
\* aiohttp.ClientError.  code: the vendor code of the JSON body (0 where no
\* body is read).
Response(net, status, read, code) ==
    [net |-> net, status |-> status, read |-> read, code |-> code]

Responses ==
    {Response(n, 200, "ok", 0) : n \in {"ClientError", "Deadline"}}
    \cup {Response("resp", s, rd, 0) : s \in {401, 500}, rd \in {"ok", "ClientError"}}
    \cup {Response("resp", 200, "ClientError", 0)}
    \cup {Response("resp", 200, "ok", c) : c \in {0, 200, 500}}

\* The answer is a JSON body the vendor marks as a success.
Parsed(r) == r.net = "resp" /\ r.status = 200 /\ r.read = "ok"

\* result.get("code") != 0 and result.get("code") != 200
CodeIsError(code) == code # 0 /\ code # 200

----------------------------------------------------------------------------
(* Dictionaries are functions from keys to values. *)

EmptyDict == [k \in {} |-> None]

\* dict.get(k): None when the key is missing
Get(d, k) == IF k \in DOMAIN d THEN d[k] ELSE None

\* d[k] = v
Put(d, k, v) == [x \in DOMAIN d \cup {k} |-> IF x = k THEN v ELSE d[x]]

\* d.update(e)
Update(d, e) == [x \in DOMAIN d \cup DOMAIN e |-> IF x \in DOMAIN e THEN e[x] ELSE d[x]]

----------------------------------------------------------------------------
(* The frame of a caller's running operation.                              *)
(*   pc      where the coroutine is suspended: "idle", "primary" and       *)
(*           "fallback" (the two login POSTs), "devices", "power", "stats",*)
(*           "today" (the GETs), "done" (the public operation returned)    *)
(*   op      the public operation: "login", "device_list", "battery_data"  *)
(*   ctx     the call site of the login in progress: "top" (the caller     *)
(*           called login()), "ensure" (token missing at the start of a    *)
(*           data operation), "relogin" (after a 401)                      *)
(*   depth   how many times the data operation has called itself again     *)
(*   nested  the fallback runs inside the primary's timeout block          *)
(*   hdr     the headers the pass built, battery_data the record it builds *)
(*   ret     what the public operation returned                            *)
(* The other fields are history, kept for the properties: counters of the  *)
(* invocation, the log's warnings, the tokens the pass's requests carried, *)
(* how the last login went (lg...), how the pass's three sub-requests     *)
(* went (s1, s2, s3) with the payloads they read, and the vendor code of   *)
(* the last answer whose JSON body was read (vcode) and the HTTP status   *)
(* of the last answer (vstatus).                                           *)

Idle ==
    [pc |-> "idle", op |-> "none", ctx |-> "none", depth |-> 0, nested |-> FALSE,
     hdr |-> None, battery_data |-> EmptyDict, ret |-> "pending",
     nLogin |-> 0, nRelogin |-> 0, nPost |-> 0, nGet |-> 0, warned |-> {}, sent |-> <<>>,
     lgRet |-> "none", lgBefore |-> None, lgPrimary |-> "none", lgBody |-> NoBody,
     lgParsed |-> FALSE, vcode |-> None, vstatus |-> None,
     s1 |-> "none", s2 |-> "none", s3 |-> "none",
     power |-> EmptyDict, statsP |-> EmptyDict, todayP |-> EmptyDict]

\* A step's outcome: the caller's next frame, the next self.token, and the
\* values a successful login assigned in the step.
Out(f, tok, new) == [f |-> f, tok |-> tok, new |-> new]

\* The public operation returns.
Done(f, ret) == [f EXCEPT !.pc = "done", !.ret = ret]

\* _get_auth_headers: "Authorization": f"Bearer {self.token}"
GetAuthHeaders(tok) == [Authorization |-> <<"Bearer", tok>>]

\* The bearer token a request with headers h carries.
Bearer(h) == h.Authorization[2]

\* NeedsLogin with the guard dropped: a request may go out before any login.
NeedsLoginNever(tok) == FALSE

\* if not self.token: (the guard before the login of a data operation)
NeedsLogin(tok) == ~Truthy(tok)

\* async_login up to its first await: the primary POST is sent.
StartLogin(f, tok, ctx) ==
    [f EXCEPT !.pc = "primary", !.ctx = ctx, !.nested = FALSE,
              !.nLogin = @ + 1, !.nPost = 1,
              !.lgRet = "pending", !.lgBefore = tok, !.lgPrimary = "none",
              !.lgBody = NoBody, !.lgParsed = FALSE]

\* The first request of a data operation is sent with headers built from
\* self.token: the device list GET, or sub-request 1 of the battery data.
SendRequest1(f, tok) ==
    LET h == GetAuthHeaders(tok) IN
    IF f.op = "device_list"
    THEN [f EXCEPT !.pc = "devices", !.ctx = "none", !.hdr = h,
                   !.nGet = @ + 1, !.sent = <<Bearer(h)>>]
    ELSE [f EXCEPT !.pc = "power", !.ctx = "none", !.hdr = h,
                   !.battery_data = EmptyDict,
                   !.nGet = @ + 1, !.sent = <<Bearer(h)>>,
                   !.s1 = "sent", !.s2 = "none", !.s3 = "none",
                   !.power = EmptyDict, !.statsP = EmptyDict, !.todayP = EmptyDict]

\* async_get_device_list / async_get_battery_data from their first line to
\* their first await: log in when the token is falsy, else send request 1.
Invoke(f, tok) ==
    IF NeedsLogin(tok) THEN StartLogin(f, tok, "ensure") ELSE SendRequest1(f, tok)

\* LoginReturns with the result of the ensuring login ignored: the data
\* request goes out also after a failed login.
LoginReturnsUnchecked(f, tok, ok) ==
    LET g == [f EXCEPT !.lgRet = IF ok THEN "True" ELSE "False"] IN
    CASE f.ctx = "top" -> Done(g, IF ok THEN "True" ELSE "False")
      [] f.ctx = "ensure" -> SendRequest1(g, tok)
      [] f.ctx = "relogin" ->
            IF ok THEN Invoke([g EXCEPT !.depth = @ + 1, !.ctx = "none"], tok)
                  ELSE Done(g, "None")

\* The caller's code after `await self.async_login()` returned ok.
LoginReturns(f, tok, ok) ==
    LET g == [f EXCEPT !.lgRet = IF ok THEN "True" ELSE "False"] IN
    CASE f.ctx = "top" -> Done(g, IF ok THEN "True" ELSE "False")
      [] f.ctx = "ensure" -> IF ok THEN SendRequest1(g, tok) ELSE Done(g, "None")
      [] f.ctx = "relogin" ->
            IF ok THEN Invoke([g EXCEPT !.depth = @ + 1, !.ctx = "none"], tok)
                  ELSE Done(g, "None")

\* ExtractToken with the two lookups swapped: data.token before the top level.
ExtractTokenNestedFirst(body) ==
    IF body.data.kind = "dict" /\ body.data.token # Missing
    THEN [found |-> TRUE, tok |-> body.data.token[1]]
    ELSE IF body.token # Missing
         THEN [found |-> TRUE, tok |-> body.token[1]]
         ELSE [found |-> FALSE, tok |-> None]

\* The token a login answer yields: top-level "token" first, then data.token.
ExtractToken(body) ==
    IF body.token # Missing
    THEN [found |-> TRUE, tok |-> body.token[1]]
    ELSE IF body.data.kind = "dict" /\ body.data.token # Missing
         THEN [found |-> TRUE, tok |-> body.data.token[1]]
         ELSE [found |-> FALSE, tok |-> None]

\* TokenOrFail clearing self.token when the answer holds no token.
TokenOrFailClears(f, tok, body) ==
    LET e == ExtractToken(body) IN
    IF e.found
    THEN Out(LoginReturns([f EXCEPT !.lgBody = body], e.tok, TRUE), e.tok, {e.tok})
    ELSE Out(LoginReturns(f, None, FALSE), None, {})

\* TokenOrFail going on to the fallback when the primary answer holds no
\* token.
TokenOrFailFallsBack(f, tok, body) ==
    LET e == ExtractToken(body)
        g == [f EXCEPT !.lgBody = body, !.lgParsed = TRUE]
    IN  IF e.found
        THEN Out(LoginReturns(g, e.tok, TRUE), e.tok, {e.tok})
        ELSE IF f.pc = "primary"
             THEN Out([g EXCEPT !.pc = "fallback", !.nPost = @ + 1], tok, {})
             ELSE Out(LoginReturns(g, tok, FALSE), tok, {})

\* The end of both login paths, reached with an answer of status 200 and a
\* success code: assign the token and return True, or log "No token found"
\* and return False.
TokenOrFail(f, tok, body) ==
    LET e == ExtractToken(body)
        g == [f EXCEPT !.lgBody = body, !.lgParsed = TRUE]
    IN  IF e.found
        THEN Out(LoginReturns(g, e.tok, TRUE), e.tok, {e.tok})
        ELSE Out(LoginReturns(g, tok, FALSE), tok, {})

\* StartFallback left out: a failed primary attempt ends the login with False.
StartFallbackSkipped(f, nested, why) ==
    LoginReturns([f EXCEPT !.lgPrimary = IF @ = "none" THEN why ELSE @], None, FALSE)

\* _async_login_fallback up to its await: the fallback POST is sent.
StartFallback(f, nested, why) ==
    [f EXCEPT !.pc = "fallback", !.nested = nested, !.nPost = @ + 1,
              !.lgPrimary = IF @ = "none" THEN why ELSE @]

\* async_login after the primary POST's answer r (with JSON body `body`).
OnPrimary(f, tok, r, body) ==
    IF r.net # "resp"
    THEN Out(StartFallback(f, FALSE, r.net), tok, {})
    ELSE IF r.status # 200
    THEN Out(StartFallback(f, r.read = "ok", "status"), tok, {})
    ELSE IF r.read # "ok"
    THEN Out(StartFallback(f, FALSE, "read"), tok, {})
    ELSE IF CodeIsError(r.code)
    THEN Out(StartFallback(f, TRUE, "code"), tok, {})
    ELSE TokenOrFail([f EXCEPT !.lgPrimary = "ok"], tok, body)

\* _async_login_fallback after the fallback POST's answer.
OnFallback(f, tok, r, body) ==
    IF r.net # "resp" \/ r.status # 200 \/ r.read # "ok" \/ CodeIsError(r.code)
    THEN Out(LoginReturns(f, tok, FALSE), tok, {})
    ELSE TokenOrFail(f, tok, body)

----------------------------------------------------------------------------
(* The data operations *)

\* The 401 branch of both data operations: `if await self.async_login():
\* return await self.<the same operation>()`, entered from inside the
\* request's timeout block.
Relogin(f, tok) == StartLogin([f EXCEPT !.nRelogin = @ + 1], tok, "relogin")

\* Enclosed with the timeout block of the first pass closed before the
\* re-login: nothing later runs under its deadline.
EnclosedNever(f) == FALSE

\* The frame runs inside the timeout block of an earlier pass's request: a
\* re-login, and everything the operation does after calling itself again.
Enclosed(f) == f.depth > 0 \/ f.ctx = "relogin"

\* The "data" member of a device list or telemetry answer.
Payloads(dicts) ==
    {[kind |-> k, d |-> EmptyDict] : k \in {"missing", "null"}}
    \cup {[kind |-> "dict", d |-> d] : d \in dicts}

NoPayload == [kind |-> "missing", d |-> EmptyDict]

DevicePayloads ==
    Payloads({EmptyDict, "sysSn" :> Str("AL2002") @@ "mbat" :> Str("M48")})

\* History only: how the last login went is kept until the next answer.
Forget(f) ==
    [f EXCEPT !.lgRet = "none", !.lgBefore = None, !.lgPrimary = "none",
              !.lgBody = NoBody, !.lgParsed = FALSE, !.nPost = 0, !.nested = FALSE]

\* async_get_device_list after the GET's answer.
OnDevices(f, tok, r, payload) ==
    IF r.net # "resp"
    THEN Done(f, "None")
    ELSE IF r.status # 200
    THEN IF r.read = "ok" /\ r.status = 401 THEN Relogin(f, tok) ELSE Done(f, "None")
    ELSE IF r.read # "ok"
    THEN Done(f, "None")
    ELSE IF CodeIsError(r.code)
    THEN Done([f EXCEPT !.s1 = "code"], "None")
    ELSE Done([f EXCEPT !.s1 = "ok"],
              IF payload.kind = "dict" THEN "devices" ELSE "None")

\* Metric names of the record, and the vendor's field each is read from.
StatsMap ==
    <<  <<"Total_Solar_Generation", "epvT">>, <<"Total_Feed_In", "eout">>,
        <<"Total_Battery_Charge", "echarge">>, <<"PV_Power_House", "epv2load">>,
        <<"PV_Charging_Battery", "epvcharge">>, <<"Total_House_Consumption", "eload">>,
        <<"Grid_Based_Battery_Charge", "egridCharge">>,
        <<"Grid_Power_Consumption", "einput">> >>

TodayMap ==
    <<  <<"PV_Generated_Today", "epvtoday">>, <<"Total_PV_Generation", "epvtotal">>,
        <<"Consumed_Today", "eload">>, <<"Feed_In_Today", "eoutput">>,
        <<"Grid_Import_Today", "einput">>, <<"Battery_Charged_Today", "echarge">>,
        <<"Battery_Discharged_Today", "edischarge">>,
        <<"Trees_Planted", "treeNum">>,
        <<"Today_Income", "todayIncome">>, <<"Total_Income", "totalIncome">> >>

StatsKeys == {StatsMap[i][1] : i \in DOMAIN StatsMap}
TodayKeys == {TodayMap[i][1] : i \in DOMAIN TodayMap}

\* battery_data[name] = src.get(field) for every pair of the map
RECURSIVE MapFields(_, _, _, _)
MapFields(bd, src, map, i) ==
    IF i > Len(map) THEN bd
    ELSE MapFields(Put(bd, map[i][1], Get(src, map[i][2])), src, map, i + 1)

\* Numbers are decimal fixed point: Num(n) stands for n / 10^5.
\* round(): the multiple of q nearest to n.  The operand is a binary float,
\* so for a decimal n halfway between two multiples the float lies just
\* above or just below the middle and the result goes that way: `up`.
RoundTo(n, q, up) ==
    LET lo == (n \div q) * q
        r == n - lo
    IN  IF 2 * r < q THEN lo
        ELSE IF 2 * r > q THEN lo + q
        ELSE IF up THEN lo + q ELSE lo

\* The ways the three roundings of one today's summary fall on a tie.
Ties == [sc : BOOLEAN, ss : BOOLEAN, co2 : BOOLEAN]

\* Percent without the rounding.
PercentUnrounded(v, up) == Num(v[1] * 100)

\* round(x * 100, 2)
Percent(v, up) == Num(RoundTo(v[1] * 100, 1000, up))

\* round(kg / 1000, 2)
Tons(v, up) == Num(RoundTo(v[1], 1000000, up) \div 1000)

\* MapStats starting a new record instead of adding to the one at hand.
MapStatsReplaces(bd, sd) == MapFields(EmptyDict, sd, StatsMap, 1)

\* The statistics fields are written into the record.
MapStats(bd, sd) == MapFields(bd, sd, StatsMap, 1)

\* The today's-summary fields are written into the record; the three
\* converted ones only when their source is not None.
MapToday(bd, td, ties) ==
    LET self_consumption == Get(td, "eselfConsumption")
        self_sufficiency == Get(td, "eselfSufficiency")
        carbon_kg == Get(td, "carbonNum")
        b1 == MapFields(bd, td, TodayMap, 1)
        b2 == IF self_consumption # None
              THEN Put(b1, "Self_Consumption", Percent(self_consumption, ties.sc))
              ELSE b1
        b3 == IF self_sufficiency # None
              THEN Put(b2, "Self_Sufficiency", Percent(self_sufficiency, ties.ss))
              ELSE b2
    IN  IF carbon_kg # None
        THEN Put(b3, "CO2_Reduction_Tons", Tons(carbon_kg, ties.co2))
        ELSE b3

\* SubRequestHeaders built anew from self.token for each sub-request.
SubRequestHeadersFresh(f, tok) == GetAuthHeaders(tok)

\* The headers sub-requests 2 and 3 carry: the dict built before sub-request 1.
SubRequestHeaders(f, tok) == f.hdr

\* A sub-request of the pass is sent.
SendNext(f, tok, pc) ==
    [f EXCEPT !.pc = pc, !.nGet = @ + 1,
              !.sent = Append(@, Bearer(SubRequestHeaders(f, tok)))]

PowerPayloads ==
    Payloads({EmptyDict,
              "soc" :> Num(5000000) @@ "ppv" :> Num(120000),
              "soc" :> Num(5000000) @@ "Total_Feed_In" :> Num(100000)
                @@ "Trees_Planted" :> None})

StatsPayloads ==
    Payloads({EmptyDict,
              "epvT" :> Num(900000) @@ "eout" :> None,
              "epvT" :> Num(900000) @@ "eout" :> Num(200000) @@ "echarge" :> Num(300000)
                @@ "epv2load" :> Num(400000) @@ "epvcharge" :> Num(500000)
                @@ "eload" :> Num(600000) @@ "egridCharge" :> None
                @@ "einput" :> Num(800000)})

TodayPayloads ==
    Payloads({EmptyDict,
              "epvtoday" :> Num(1200000) @@ "eselfConsumption" :> None,
              "epvtoday" :> Num(1200000) @@ "epvtotal" :> Num(900000)
                @@ "eload" :> Num(700000) @@ "eselfConsumption" :> Num(100000)
                @@ "eselfSufficiency" :> Num(12345) @@ "treeNum" :> Num(300000)
                @@ "carbonNum" :> Num(123400000) @@ "todayIncome" :> None,
              "eselfConsumption" :> Num(0) @@ "eselfSufficiency" :> Num(100000)
                @@ "carbonNum" :> Num(500000)})

\* OnPower going on to the statistics when sub-request 1 is answered with
\* a vendor error code.
OnPowerCodeContinues(f, tok, r, payload) ==
    IF r.net # "resp"
    THEN Done([f EXCEPT !.s1 = r.net], "None")
    ELSE IF r.status # 200
    THEN IF r.read = "ok" /\ r.status = 401
         THEN Relogin([f EXCEPT !.s1 = "401"], tok)
         ELSE Done([f EXCEPT !.s1 = "status"], "None")
    ELSE IF r.read # "ok"
    THEN Done([f EXCEPT !.s1 = "read"], "None")
    ELSE IF CodeIsError(r.code)
    THEN SendNext([f EXCEPT !.s1 = "code"], tok, "stats")
    ELSE IF payload.kind = "null"
    THEN Done([f EXCEPT !.s1 = "null"], "TypeError")
    ELSE SendNext([f EXCEPT !.s1 = "ok", !.power = payload.d,
                            !.battery_data = Update(@, payload.d)], tok, "stats")

\* async_get_battery_data after the answer to sub-request 1 (real-time power).
OnPower(f, tok, r, payload) ==
    IF r.net # "resp"
    THEN Done([f EXCEPT !.s1 = r.net], "None")
    ELSE IF r.status # 200
    THEN IF r.read = "ok" /\ r.status = 401
         THEN Relogin([f EXCEPT !.s1 = "401"], tok)
         ELSE Done([f EXCEPT !.s1 = "status"], "None")
    ELSE IF r.read # "ok"
    THEN Done([f EXCEPT !.s1 = "read"], "None")
    ELSE IF CodeIsError(r.code)
    THEN Done([f EXCEPT !.s1 = "code"], "None")
    ELSE IF payload.kind = "null"
    THEN \* battery_data.update(None)
         Done([f EXCEPT !.s1 = "null"], "TypeError")
    ELSE SendNext([f EXCEPT !.s1 = "ok", !.power = payload.d,
                            !.battery_data = Update(@, payload.d)], tok, "stats")

\* OnStats returning the record at once on a non-200 status, as it does on a
\* transport error.
OnStatsStatusReturns(f, tok, r, payload) ==
    IF r.net = "ClientError"
    THEN Done([f EXCEPT !.s2 = "ClientError", !.warned = @ \cup {"stats"}], "data")
    ELSE IF r.net = "Deadline"
    THEN Done([f EXCEPT !.s2 = "Deadline"], "None")
    ELSE IF r.status # 200
    THEN Done([f EXCEPT !.s2 = "status", !.warned = @ \cup {"stats"}], "data")
    ELSE IF r.read # "ok"
    THEN Done([f EXCEPT !.s2 = "read"], "None")
    ELSE IF r.code = 200 \/ r.code = 0
    THEN IF payload.kind = "dict" /\ payload.d # EmptyDict
         THEN SendNext([f EXCEPT !.s2 = "ok", !.statsP = payload.d,
                                 !.battery_data = MapStats(@, payload.d)], tok, "today")
         ELSE SendNext([f EXCEPT !.s2 = "empty"], tok, "today")
    ELSE SendNext([f EXCEPT !.s2 = "code", !.warned = @ \cup {"stats"}], tok, "today")

\* OnStats logging in again and starting over on a 401, as sub-request 1
\* does.
OnStats401Relogins(f, tok, r, payload) ==
    IF r.net = "ClientError"
    THEN Done([f EXCEPT !.s2 = "ClientError", !.warned = @ \cup {"stats"}], "data")
    ELSE IF r.net = "Deadline"
    THEN Done([f EXCEPT !.s2 = "Deadline"], "None")
    ELSE IF r.status = 401
    THEN Relogin([f EXCEPT !.s2 = "status", !.warned = @ \cup {"stats"}], tok)
    ELSE IF r.status # 200
    THEN SendNext([f EXCEPT !.s2 = "status", !.warned = @ \cup {"stats"}], tok, "today")
    ELSE IF r.read # "ok"
    THEN Done([f EXCEPT !.s2 = "read"], "None")
    ELSE IF r.code = 200 \/ r.code = 0
    THEN IF payload.kind = "dict" /\ payload.d # EmptyDict
         THEN SendNext([f EXCEPT !.s2 = "ok", !.statsP = payload.d,
                                 !.battery_data = MapStats(@, payload.d)], tok, "today")
         ELSE SendNext([f EXCEPT !.s2 = "empty"], tok, "today")
    ELSE SendNext([f EXCEPT !.s2 = "code", !.warned = @ \cup {"stats"}], tok, "today")

\* ... after the answer to sub-request 2 (energy statistics).
OnStats(f, tok, r, payload) ==
    IF r.net = "ClientError"
    THEN Done([f EXCEPT !.s2 = "ClientError", !.warned = @ \cup {"stats"}], "data")
    ELSE IF r.net = "Deadline"
    THEN Done([f EXCEPT !.s2 = "Deadline"], "None")
    ELSE IF r.status # 200
    THEN SendNext([f EXCEPT !.s2 = "status", !.warned = @ \cup {"stats"}], tok, "today")
    ELSE IF r.read # "ok"
    THEN Done([f EXCEPT !.s2 = "read"], "None")
    ELSE IF r.code = 200 \/ r.code = 0
    THEN IF payload.kind = "dict" /\ payload.d # EmptyDict
         THEN SendNext([f EXCEPT !.s2 = "ok", !.statsP = payload.d,
                                 !.battery_data = MapStats(@, payload.d)], tok, "today")
         ELSE SendNext([f EXCEPT !.s2 = "empty"], tok, "today")
    ELSE SendNext([f EXCEPT !.s2 = "code", !.warned = @ \cup {"stats"}], tok, "today")

\* OnToday taking code 0 for a success as the other endpoints do.
OnTodayAcceptsZero(f, tok, r, payload, ties) ==
    IF r.net = "ClientError"
    THEN Done([f EXCEPT !.s3 = "ClientError", !.warned = @ \cup {"today"}], "data")
    ELSE IF r.net = "Deadline"
    THEN Done([f EXCEPT !.s3 = "Deadline"], "None")
    ELSE IF r.status # 200
    THEN Done([f EXCEPT !.s3 = "status", !.warned = @ \cup {"today"}], "data")
    ELSE IF r.read # "ok"
    THEN Done([f EXCEPT !.s3 = "read"], "None")
    ELSE IF r.code = 200 \/ r.code = 0
    THEN IF payload.kind = "dict" /\ payload.d # EmptyDict
         THEN Done([f EXCEPT !.s3 = "ok", !.todayP = payload.d,
                             !.battery_data = MapToday(@, payload.d, ties)], "data")
         ELSE Done([f EXCEPT !.s3 = "empty"], "data")
    ELSE Done([f EXCEPT !.s3 = "code", !.warned = @ \cup {"today"}], "data")

\* ... after the answer to sub-request 3 (today's summary).
OnToday(f, tok, r, payload, ties) ==
    IF r.net = "ClientError"
    THEN Done([f EXCEPT !.s3 = "ClientError", !.warned = @ \cup {"today"}], "data")
    ELSE IF r.net = "Deadline"
    THEN Done([f EXCEPT !.s3 = "Deadline"], "None")
    ELSE IF r.status # 200
    THEN Done([f EXCEPT !.s3 = "status", !.warned = @ \cup {"today"}], "data")
    ELSE IF r.read # "ok"
    THEN Done([f EXCEPT !.s3 = "read"], "None")
    ELSE IF r.code = 200
    THEN IF payload.kind = "dict" /\ payload.d # EmptyDict
         THEN Done([f EXCEPT !.s3 = "ok", !.todayP = payload.d,
                             !.battery_data = MapToday(@, payload.d, ties)], "data")
         ELSE Done([f EXCEPT !.s3 = "empty"], "data")
    ELSE Done([f EXCEPT !.s3 = "code", !.warned = @ \cup {"today"}], "data")

----------------------------------------------------------------------------
(* ByteWattConfigFlow (custom_components/bytewatt/config_flow.py).  The     *)
(* flow object holds the client built from the last submitted credentials, *)
(* user_data and devices; result is what its last step returned to the     *)
(* host: a form to show or the config entry to create.  success is         *)
(* history: what initialize() returned for the client (None before).       *)

CONF_USERNAME == "username"
CONF_PASSWORD == "password"
CONF_SCAN_INTERVAL == "scan_interval"
DEFAULT_SCAN_INTERVAL == 60
MIN_SCAN_INTERVAL == 30

\* The two names config_flow.py imports from const.py, which does not set
\* them: the key of the selected device and the all-devices selection.
CONF_DEVICE_SN == "device_sn"
DEFAULT_DEVICE_SN == Str("All")

\* What the user form accepts: two required strings, and a scan interval
\* that is an integer of at least MIN_SCAN_INTERVAL (DEFAULT_SCAN_INTERVAL
\* when the user leaves it out).
UserInputs ==
    [username : {Str("alice"), Str("bob")},
     password : {Str("pw1"), Str("pw2")},
     scan_interval : {Num(MIN_SCAN_INTERVAL), Num(DEFAULT_SCAN_INTERVAL)}]

\* await self.client.initialize(): a truthy or a falsy value.
InitializeResults == BOOLEAN

\* Devices of the menu list: with a model, without one, without a serial
\* number, with an empty one.
DeviceA == [sysSn |-> Str("AL2002017"), mbat |-> Str("M10"), storageCap |-> Num(10)]
DeviceB == [sysSn |-> Str("B12")]
DeviceNoSn == [mbat |-> Str("M5")]
DeviceEmptySn == [sysSn |-> Str(""), mbat |-> Str("M5")]

\* await self.client.api_client.async_get_device_menu_list(): it raises, or
\* returns None or a list.
MenuResults ==
    {[kind |-> k, list |-> <<>>] : k \in {"Exception", "None"}}
    \cup {[kind |-> "list", list |-> l] :
            l \in {<<>>, <<DeviceA>>, <<DeviceB>>, <<DeviceA, DeviceB>>,
                   <<DeviceNoSn>>, <<DeviceEmptySn, DeviceA>>}}

\* dict.get(k, default)
GetOr(d, k, default) == IF k \in DOMAIN d THEN d[k] ELSE default

\* device_sn[-4:] of the serial numbers above
LastFour(sn) == IF sn = Str("AL2002017") THEN Str("2017") ELSE sn

NoResult ==
    [type |-> "none", step_id |-> None, errors |-> EmptyDict,
     options |-> {}, title |-> None, data |-> EmptyDict]

\* ByteWattConfigFlow.__init__
NewFlow ==
    [client |-> None, user_data |-> EmptyDict, devices |-> <<>>,
     success |-> None, result |-> NoResult]

\* self.async_show_form(step_id, data_schema, errors): options is the set
\* the schema lets the device be chosen from (empty on the user form).
async_show_form(fl, step_id, options, errors) ==
    [fl EXCEPT !.result = [NoResult EXCEPT !.type = "form", !.step_id = Str(step_id),
                                            !.errors = errors, !.options = options]]

\* self.async_create_entry(title, data)
async_create_entry(fl, title, data) ==
    [fl EXCEPT !.result = [NoResult EXCEPT !.type = "create_entry",
                                            !.title = title, !.data = data]]

\* The keys of device_options: the all-devices selection and the serial
\* number of every device that has a non-empty one.
DeviceOptions(devices) ==
    {DEFAULT_DEVICE_SN}
    \cup {GetOr(devices[i], "sysSn", Str("")) : i \in {j \in DOMAIN devices :
            Truthy(GetOr(devices[j], "sysSn", Str("")))}}

\* The title of the entry of one device: next((d for d in self.devices if
\* d.get("sysSn") == device_sn), None) is the first such device.
DeviceTitle(devices, device_sn) ==
    LET found == {i \in DOMAIN devices : Get(devices[i], "sysSn") = device_sn} IN
    IF found # {} /\ DOMAIN devices[CHOOSE i \in found : \A j \in found : i <= j] # {}
    THEN LET d == devices[CHOOSE i \in found : \A j \in found : i <= j] IN
         <<"Byte-Watt", LastFour(device_sn), GetOr(d, "mbat", Str("Unknown"))>>
    ELSE <<"Byte-Watt", device_sn>>

\* async_step_device(user_input); user_input is None when the step is
\* entered from async_step_user.
async_step_device(fl, user_input) ==
    IF user_input # None
    THEN LET device_sn == user_input[CONF_DEVICE_SN]
             user_data == Put(fl.user_data, CONF_DEVICE_SN, device_sn)
             title == IF device_sn = DEFAULT_DEVICE_SN
                      THEN <<"Byte-Watt", fl.user_data[CONF_USERNAME], "All Devices">>
                      ELSE DeviceTitle(fl.devices, device_sn)
         IN  async_create_entry([fl EXCEPT !.user_data = user_data], title, user_data)
    ELSE async_show_form(fl, "device", DeviceOptions(fl.devices), EmptyDict)

\* The same step when the entry is created whatever initialize() returned.
async_step_userUnchecked(fl, user_input, success, menu) ==
    IF user_input # None
    THEN LET made == [fl EXCEPT !.user_data = user_input,
                                !.client = [username |-> user_input[CONF_USERNAME],
                                            password |-> user_input[CONF_PASSWORD]],
                                !.success = <<success>>]
             listed == [made EXCEPT !.devices = IF menu.kind = "list" THEN menu.list ELSE <<>>]
         IN  IF listed.devices # <<>>
             THEN async_step_device(listed, None)
             ELSE LET user_data == Put(listed.user_data, CONF_DEVICE_SN, DEFAULT_DEVICE_SN) IN
                  async_create_entry([listed EXCEPT !.user_data = user_data],
                                     <<"Byte-Watt", user_input[CONF_USERNAME]>>, user_data)
    ELSE async_show_form(fl, "user", {}, EmptyDict)

\* async_step_user(user_input), with what initialize() and the menu list
\* answer: success is the value line 47 tests, and a raised Exception or a
\* falsy menu list leaves self.devices empty.
async_step_user(fl, user_input, success, menu) ==
    IF user_input # None
    THEN LET made == [fl EXCEPT !.user_data = user_input,
                                !.client = [username |-> user_input[CONF_USERNAME],
                                            password |-> user_input[CONF_PASSWORD]],
                                !.success = <<success>>]
         IN  IF success
             THEN LET listed == [made EXCEPT !.devices = IF menu.kind = "list" THEN menu.list ELSE <<>>] IN
                  IF listed.devices # <<>>
                  THEN async_step_device(listed, None)
                  ELSE LET user_data == Put(listed.user_data, CONF_DEVICE_SN, DEFAULT_DEVICE_SN) IN
                       async_create_entry([listed EXCEPT !.user_data = user_data],
                                          <<"Byte-Watt", user_input[CONF_USERNAME]>>, user_data)
             ELSE async_show_form(made, "user", {}, [k \in {"base"} |-> Str("auth")])
    ELSE async_show_form(fl, "user", {}, EmptyDict)

----------------------------------------------------------------------------
(* Actions *)

\* What the server may answer.  With overlapping callers the answers are
\* kept to one of each kind that matters to the token: a transport error, a
\* 401 and a success carrying a well-formed body.
Answers ==
    IF concurrent
    THEN {Response("ClientError", 200, "ok", 0), Response("resp", 401, "ok", 0),
          Response("resp", 200, "ok", 200)}
    ELSE Responses

LoginBodyOf(r) ==
    IF ~Parsed(r) THEN {NoBody}
    ELSE IF concurrent
    THEN {[NoBody EXCEPT !.token = Present(Str(t))] : t \in {"tokA", "tokB"}}
    ELSE LoginBodies

PayloadOf(r, payloads) ==
    IF ~Parsed(r) THEN {NoPayload}
    ELSE IF concurrent
    THEN {pl \in payloads : pl.kind = "dict" /\ Cardinality(DOMAIN pl.d) = 2}
    ELSE payloads

\* A rounding happens only for a payload that holds one of the three
\* source fields.
TiesOf(payload) ==
    IF \E k \in {"eselfConsumption", "eselfSufficiency", "carbonNum"} :
           Get(payload.d, k) # None
    THEN Ties
    ELSE {[sc |-> FALSE, ss |-> FALSE, co2 |-> FALSE]}

\* Callers overlap only in the concurrent specification; in the sequential
\* one a single caller makes one call after the other.
CanStart(p) == concurrent \/ p = "c1"

\* History only: the counters of a frame stop counting at the most the
\* invocation can reach when the server answers 401 to Max401 passes.
Capped(f) ==
    LET Least(a, b) == IF a < b THEN a ELSE b IN
    [f EXCEPT !.depth = Least(@, Max401), !.nRelogin = Least(@, Max401),
              !.nLogin = Least(@, 2 * Max401 + 1), !.nGet = Least(@, Max401 + 3)]

Apply(p, out) ==
    /\ call' = [call EXCEPT ![p] = Capped(out.f)]
    /\ token' = out.tok
    /\ issued' = issued \cup out.new
    /\ UNCHANGED <<concurrent, flow>>

\* History only: the HTTP status of the answer r, and its vendor code when
\* its body was read.
Heard(f, r) ==
    [f EXCEPT !.vcode = IF Parsed(r) THEN Num(r.code) ELSE None,
              !.vstatus = IF r.net = "resp" THEN Num(r.status) ELSE None]

CallLogin(p) ==
    /\ call[p].pc = "idle"
    /\ CanStart(p)
    /\ Apply(p, Out(StartLogin([Idle EXCEPT !.op = "login"], token, "top"), token, {}))

CallDeviceList(p) ==
    /\ call[p].pc = "idle"
    /\ CanStart(p)
    /\ Apply(p, Out(Invoke([Idle EXCEPT !.op = "device_list"], token), token, {}))

RecvPrimary(p) ==
    /\ call[p].pc = "primary"
    /\ \E r \in Answers :
          \E body \in LoginBodyOf(r) :
              Apply(p, OnPrimary(Heard(call[p], r), token, r, body))

RecvFallback(p) ==
    /\ call[p].pc = "fallback"
    /\ \E r \in Answers :
          \E body \in LoginBodyOf(r) :
              Apply(p, OnFallback(Heard(call[p], r), token, r, body))

CallBatteryData(p) ==
    /\ call[p].pc = "idle"
    /\ CanStart(p)
    /\ Apply(p, Out(Invoke([Idle EXCEPT !.op = "battery_data"], token), token, {}))

\* The server answers 401 to at most Max401 passes of one invocation
\* (MaxOverlapping401 with overlapping callers).
May401(f, r) ==
    (r.net = "resp" /\ r.status = 401)
    => f.depth < (IF concurrent THEN MaxOverlapping401 ELSE Max401)

RecvDevices(p) ==
    /\ call[p].pc = "devices"
    /\ \E r \in Answers :
       \E payload \in PayloadOf(r, DevicePayloads) :
          /\ May401(call[p], r)
          /\ Apply(p, Out(OnDevices(Heard(Forget(call[p]), r), token, r, payload), token, {}))

RecvPower(p) ==
    /\ call[p].pc = "power"
    /\ \E r \in Answers :
       \E payload \in PayloadOf(r, PowerPayloads) :
          /\ May401(call[p], r)
          /\ Apply(p, Out(OnPower(Heard(Forget(call[p]), r), token, r, payload), token, {}))

RecvStats(p) ==
    /\ call[p].pc = "stats"
    /\ \E r \in Answers :
       \E payload \in PayloadOf(r, StatsPayloads) :
          Apply(p, Out(OnStats(Heard(call[p], r), token, r, payload), token, {}))

RecvToday(p) ==
    /\ call[p].pc = "today"
    /\ \E r \in Answers :
       \E payload \in PayloadOf(r, TodayPayloads) :
       \E ties \in TiesOf(payload) :
          Apply(p, Out(OnToday(Heard(call[p], r), token, r, payload, ties), token, {}))

\* The timeout of the primary POST's block expires while the fallback called
\* inside it is awaiting: the TimeoutError raised at the block's exit reaches
\* async_login's except clause, which calls the fallback again.
PrimaryDeadline(p) ==
    /\ call[p].pc = "fallback"
    /\ call[p].nested
    /\ ~Enclosed(call[p])
    /\ Apply(p, Out(StartFallback(call[p], FALSE, "Deadline"), token, {}))

\* The timeout of the block around the request of the first pass expires
\* while a re-login or a later pass is awaiting inside it: the TimeoutError
\* raised at that block's exit reaches the first pass's except clause.
OuterDeadline(p) ==
    /\ call[p].pc \in {"primary", "fallback", "devices", "power", "stats", "today"}
    /\ Enclosed(call[p])
    /\ Apply(p, Out(Done([call[p] EXCEPT
                            !.lgRet = IF @ = "pending" THEN "cancelled" ELSE @,
                            !.s1 = IF call[p].pc = "power" THEN "OuterDeadline" ELSE @,
                            !.s2 = IF call[p].pc = "stats" THEN "OuterDeadline" ELSE @,
                            !.s3 = IF call[p].pc = "today" THEN "OuterDeadline" ELSE @],
                         "None"), token, {}))

\* The caller takes the result: its frame is dropped.
Return(p) ==
    /\ call[p].pc = "done"
    /\ Apply(p, Out(Idle, token, {}))

Init ==
    /\ token = None
    /\ call = [p \in Callers |-> Idle]
    /\ issued = {}
    /\ concurrent = FALSE
    /\ flow = NewFlow

Next ==
    \E p \in Callers :
        \/ CallLogin(p)
        \/ CallDeviceList(p)
        \/ CallBatteryData(p)
        \/ RecvPrimary(p)
        \/ RecvFallback(p)
        \/ PrimaryDeadline(p)
        \/ RecvDevices(p)
        \/ RecvPower(p)
        \/ RecvStats(p)
        \/ RecvToday(p)
        \/ OuterDeadline(p)
        \/ Return(p)

Spec == Init /\ [][Next]_vars

\* The same client with overlapping callers.
InitConcurrent ==
    /\ token = None
    /\ call = [p \in Callers |-> Idle]
    /\ issued = {}
    /\ concurrent = TRUE
    /\ flow = NewFlow

SpecConcurrent == InitConcurrent /\ [][Next]_vars

\* The same client with a server free to answer 401 to every pass.
RecvDevicesAny(p) ==
    /\ call[p].pc = "devices"
    /\ \E r \in Answers :
       \E payload \in PayloadOf(r, DevicePayloads) :
          Apply(p, Out(OnDevices(Heard(Forget(call[p]), r), token, r, payload), token, {}))

RecvPowerAny(p) ==
    /\ call[p].pc = "power"
    /\ \E r \in Answers :
       \E payload \in PayloadOf(r, PowerPayloads) :
          Apply(p, Out(OnPower(Heard(Forget(call[p]), r), token, r, payload), token, {}))

\* A pending request is answered, fails or runs into its own timeout.
Answered(p) ==
    \/ RecvPrimary(p)
    \/ RecvFallback(p)
    \/ PrimaryDeadline(p)
    \/ RecvDevicesAny(p)
    \/ RecvPowerAny(p)
    \/ RecvStats(p)
    \/ RecvToday(p)

NextAny ==
    \E p \in {"c1"} :
        \/ CallLogin(p)
        \/ CallDeviceList(p)
        \/ CallBatteryData(p)
        \/ Answered(p)
        \/ OuterDeadline(p)
        \/ Return(p)

\* Every pending request ends, and the timer of an open timeout block fires.
SpecAny ==
    /\ InitConcurrent
    /\ [][NextAny]_vars
    /\ \A p \in Callers : WF_vars(Answered(p)) /\ WF_vars(OuterDeadline(p))

\* The configuration flow, next to a client nobody calls.
NoMenu == [kind |-> "None", list |-> <<>>]

\* The host starts a flow: a new ByteWattConfigFlow, then
\* async_step_user(None).
StepUserInit ==
    /\ flow.result.type \in {"none", "create_entry"}
    /\ flow' = async_step_user(NewFlow, None, FALSE, NoMenu)
    /\ UNCHANGED <<token, call, issued, concurrent>>

\* The user submits the user form.
StepUser ==
    /\ flow.result.type = "form" /\ flow.result.step_id = Str("user")
    /\ \E user_input \in UserInputs, success \in InitializeResults, menu \in MenuResults :
          flow' = async_step_user(flow, user_input, success, menu)
    /\ UNCHANGED <<token, call, issued, concurrent>>

\* The user submits the device form with one of the choices it offers.
StepDevice ==
    /\ flow.result.type = "form" /\ flow.result.step_id = Str("device")
    /\ \E sn \in flow.result.options :
          flow' = async_step_device(flow, [k \in {CONF_DEVICE_SN} |-> sn])
    /\ UNCHANGED <<token, call, issued, concurrent>>

NextFlow == StepUserInit \/ StepUser \/ StepDevice

SpecFlow == Init /\ [][NextFlow]_vars

----------------------------------------------------------------------------
(* Properties *)

Returned(f, op) == f.pc = "done" /\ f.op = op

\* The ways the claims name for a sub-request to end.
NamedOutcomes == {"ok", "empty", "ClientError", "Deadline", "status", "code"}

\* C1: when sub-request 1 succeeds, getBatteryData returns a record holding
\* every key of the real-time power payload, however sub-requests 2 and 3
\* end (success, transport error, timeout, non-200 status, vendor error code).
C1_PowerDataSurvives ==
    \A p \in Callers :
        LET f == call[p] IN
        (/\ Returned(f, "battery_data")
         /\ f.s1 = "ok"
         /\ f.s2 \in NamedOutcomes
         /\ f.s3 \in NamedOutcomes \cup {"none"})
        => (f.ret = "data" /\ DOMAIN f.power \subseteq DOMAIN f.battery_data)

\* C2: one invocation of getDeviceList logs in again at most once after a
\* 401 and sends at most one retried request (two GETs in all).
C2_DeviceListRetriesOnce ==
    \A p \in Callers :
        call[p].op = "device_list" => call[p].nRelogin <= 1 /\ call[p].nGet <= 2

\* C3: one invocation of getBatteryData logs in again at most once after a
\* 401 on sub-request 1: the retried pass causes no second re-login.
C3_BatteryDataRetryDepthOne ==
    \A p \in Callers :
        call[p].op = "battery_data" => call[p].nRelogin <= 1 /\ call[p].depth <= 1

\* The ways the primary login attempt fails that lead to the fallback.
PrimaryFailures == {"ClientError", "Deadline", "status", "read", "code"}

C5_RequestsCarryIssuedToken ==
    \A p \in Callers :
        \A i \in DOMAIN call[p].sent : call[p].sent[i] \in issued

\* A re-login after a 401 of one battery-data call has replaced the token
\* while the other caller's battery-data request still carries the old one.
C5_Witness ==
    \E p, q \in Callers :
        /\ p # q
        /\ call[p].op = "battery_data" /\ call[p].nRelogin = 1 /\ call[p].depth = 1
        /\ call[p].pc = "power" /\ call[p].sent[1] = token
        /\ call[q].op = "battery_data" /\ call[q].pc \in {"power", "stats", "today"}
        /\ call[q].sent[1] # token /\ Truthy(call[q].sent[1])

\* C6: after a login returned True the session token is the top-level
\* "token" of the answer it read when there is one, and data.token otherwise.
C6_TokenFromResponse ==
    \A p \in Callers :
        LET f == call[p] IN
        f.lgRet = "True" =>
            IF f.lgBody.token # Missing
            THEN token = f.lgBody.token[1]
            ELSE /\ f.lgBody.data.kind = "dict"
                 /\ f.lgBody.data.token # Missing
                 /\ token = f.lgBody.data.token[1]

\* A fallback login that found the token only under data.token.
C6_Witness ==
    \E p \in Callers :
        /\ call[p].lgRet = "True"
        /\ call[p].nPost = 2
        /\ call[p].lgBody.token = Missing
        /\ call[p].lgBody.data.token = Present(Str("tokB"))
        /\ token = Str("tokB")

\* C7: after a login returned True the session token is populated, also
\* when the answer's "token" key holds null or an empty string.
C7_TrueLoginPopulatesToken ==
    \A p \in Callers : call[p].lgRet = "True" => Truthy(token)

\* C8: after a login returned False the session token is the one held
\* before the call.
C8_FailedLoginKeepsToken ==
    \A p \in Callers : call[p].lgRet = "False" => token = call[p].lgBefore

\* A stale token survives a login whose primary and fallback both failed.
C8_Witness ==
    \E p \in Callers :
        /\ call[p].lgRet = "False"
        /\ call[p].nPost = 2
        /\ call[p].lgBefore = Str("tokA")
        /\ token = Str("tokA")

\* The named fields of today's summary are in the record with the values
\* of the payload.
TodayMerged(bd, td) ==
    \A i \in DOMAIN TodayMap :
        /\ TodayMap[i][1] \in DOMAIN bd
        /\ bd[TodayMap[i][1]] = Get(td, TodayMap[i][2])

\* C9 as claimed: after step 1 succeeded, sub-request 3 is issued whatever
\* the outcome of sub-request 2 (success, transport failure, non-200 status
\* or vendor error code), and a successful sub-request 3 is merged.
C9_TodayWhateverStats ==
    \A p \in Callers :
        LET f == call[p] IN
        (/\ Returned(f, "battery_data")
         /\ f.s1 = "ok"
         /\ f.s2 \in {"ok", "empty", "ClientError", "status", "code"})
        => /\ f.s3 # "none"
           /\ f.s3 = "ok" => (f.ret = "data" /\ TodayMerged(f.battery_data, f.todayP))

\* C9 amended: after step 1 succeeded, sub-request 3 is issued whenever
\* sub-request 2 was answered (success, empty data, non-200 status, vendor
\* error code), and a successful sub-request 3 (status 200, code 200,
\* non-empty data) is merged into the returned record.
C9_TodayAfterAnsweredStats ==
    \A p \in Callers :
        LET f == call[p] IN
        (/\ Returned(f, "battery_data")
         /\ f.s1 = "ok"
         /\ f.s2 \in {"ok", "empty", "status", "code"})
        => /\ f.s3 # "none"
           /\ Len(f.sent) = 3
           /\ f.s3 = "ok" => (f.ret = "data" /\ TodayMerged(f.battery_data, f.todayP))

C9_Witness ==
    \E p \in Callers :
        LET f == call[p] IN
        /\ Returned(f, "battery_data")
        /\ f.s1 = "ok" /\ f.s2 = "status" /\ f.s3 = "ok"
        /\ f.ret = "data"
        /\ "epvtotal" \in DOMAIN f.todayP
        /\ f.battery_data["Total_PV_Generation"] = f.todayP["epvtotal"]

\* C10: every section missing from a returned record is attributable to a
\* warning logged in the same invocation: a warning for a failure of that
\* sub-request or, for today's summary, the warning of the statistics
\* transport failure that ended the call before sub-request 3.
C10_NoSilentOmission ==
    \A p \in Callers :
        LET f == call[p] IN
        (Returned(f, "battery_data") /\ f.ret = "data")
        => /\ ~(StatsKeys \subseteq DOMAIN f.battery_data) => "stats" \in f.warned
           /\ ~(TodayKeys \subseteq DOMAIN f.battery_data) =>
                 \/ "today" \in f.warned
                 \/ (f.s3 = "none" /\ "stats" \in f.warned)

\* C11: once the session token is present, no step of any login,
\* getDeviceList or getBatteryData call sets it back to absent.
C11_TokenNeverCleared == [][token # None => token' # None]_vars

\* What each public operation hands back without raising.
Results ==
    [login |-> {"True", "False"}, device_list |-> {"devices", "None"},
     battery_data |-> {"data", "None"}]

\* C12: whatever the answers (transport error, timeout, non-200 status,
\* vendor error code, success answer lacking an expected field), a call that
\* ended returned a boolean (login) or a result or None (the data
\* operations): no exception reached the caller.
C12_NoExceptionEscapes ==
    \A p \in Callers :
        call[p].pc = "done" => call[p].ret \in Results[call[p].op]

DataOps == {"device_list", "battery_data"}

\* C13: a data operation called with no token logs in before anything else
\* and, called with a token, sends its request at once; when the ensuring
\* login returns False the operation returns None without having sent a
\* GET; an operation that started with a token logs in only after its first
\* request failed, so none at all when that request succeeds.
C13_EnsureToken ==
    [][\A p \in Callers :
        LET f == call[p]
            g == call'[p]
        IN  /\ (f.pc = "idle" /\ g.op \in DataOps) =>
                  IF Truthy(token)
                  THEN g.pc \in {"devices", "power"} /\ g.nLogin = 0 /\ g.nGet = 1
                  ELSE g.pc = "primary" /\ g.nLogin = 1 /\ g.nGet = 0
            /\ (/\ f.op \in DataOps /\ f.ctx = "ensure"
                /\ f.lgRet = "pending" /\ g.lgRet = "False") =>
                  /\ g.pc = "done" /\ g.ret = "None"
                  /\ g.nGet = f.nGet
                  /\ f.depth = 0 => g.nGet = 0
            /\ (f.op \in DataOps /\ f.nLogin = 0 /\ g.nLogin > 0) =>
                  /\ f.pc \in {"devices", "power"}
                  /\ g.ret = "pending"
                  /\ g.s1 \in {"none", "401"}
      ]_vars

\* getBatteryData found no token, its login failed after both attempts, and
\* it returned None without a GET.
C13_Witness ==
    \E p \in Callers :
        LET f == call[p] IN
        /\ Returned(f, "battery_data") /\ f.ret = "None"
        /\ f.ctx = "ensure" /\ f.lgRet = "False"
        /\ f.nLogin = 1 /\ f.nPost = 2 /\ f.nGet = 0

\* C14: one login sends at most two POSTs, the primary one and at most one
\* fallback; a login that failed after its primary attempt failed has sent
\* exactly those two.
C14_AtMostTwoPosts ==
    \A p \in Callers :
        LET f == call[p] IN
        /\ f.nPost <= 2
        /\ (f.lgRet = "False" /\ f.lgPrimary \in PrimaryFailures) => f.nPost = 2

\* C15: a login whose last answer had status 200 and a success code but a
\* token neither at top level nor under data.token returned False; when
\* that answer was the primary one, no fallback POST was sent.
C15_NoTokenFailsLogin ==
    \A p \in Callers :
        LET f == call[p] IN
        (f.lgParsed /\ ~ExtractToken(f.lgBody).found)
        => /\ f.lgRet = "False"
           /\ f.lgPrimary = "ok" => f.nPost = 1

\* The primary answer is a success whose "data" object holds no token: the
\* login returned False after one POST.
C15_Witness ==
    \E p \in Callers :
        LET f == call[p] IN
        /\ f.lgRet = "False" /\ f.lgPrimary = "ok" /\ f.nPost = 1
        /\ f.lgParsed
        /\ f.lgBody.token = Missing
        /\ f.lgBody.data = [kind |-> "dict", token |-> Missing]

\* The ways sub-request 1 fails without a re-login: transport error,
\* timeout, a non-200 status that is not a readable 401, an unreadable
\* body, a vendor error code.
Step1Failures == {"ClientError", "Deadline", "status", "read", "code"}

\* C16: when sub-request 1 failed other than by a 401, the call returned
\* None at once: the pass made no re-login and sent neither sub-request 2
\* nor sub-request 3.  When it was answered 401 and the re-login returned
\* False, the call returned None and the pass sent neither sub-request.
C16_Step1FailureAborts ==
    \A p \in Callers :
        LET f == call[p] IN
        /\ (f.op = "battery_data" /\ f.s1 \in Step1Failures)
           => /\ f.pc = "done" /\ f.ret = "None"
              /\ f.nRelogin = f.depth /\ f.nLogin <= f.depth * 2 + 1
              /\ f.lgRet = "none"
              /\ Len(f.sent) = 1 /\ f.s2 = "none" /\ f.s3 = "none"
        /\ (f.op = "battery_data" /\ f.s1 = "401" /\ f.lgRet = "False")
           => /\ f.pc = "done" /\ f.ret = "None"
              /\ Len(f.sent) = 1 /\ f.s2 = "none" /\ f.s3 = "none"

\* Sub-request 1 was answered with a vendor error code on the first pass of
\* a call that held a token.
C16_Witness ==
    \E p \in Callers :
        LET f == call[p] IN
        /\ Returned(f, "battery_data") /\ f.ret = "None"
        /\ f.s1 = "code" /\ f.depth = 0
        /\ f.nLogin = 0 /\ f.nRelogin = 0 /\ f.nGet = 1

\* The metric names the statistics and today's-summary steps write.
MappedNames ==
    StatsKeys \cup TodayKeys
    \cup {"Self_Consumption", "Self_Sufficiency", "CO2_Reduction_Tons"}

\* C18: in a returned record every key of the real-time power payload of
\* step 1 holds the value step 1 gave it, whatever the statistics and
\* today's summary added, provided the payload uses no mapped metric name.
C18_PowerKeysKept ==
    \A p \in Callers :
        LET f == call[p] IN
        (/\ Returned(f, "battery_data") /\ f.ret = "data"
         /\ DOMAIN f.power \cap MappedNames = {})
        => \A k \in DOMAIN f.power :
              k \in DOMAIN f.battery_data /\ f.battery_data[k] = f.power[k]

\* Statistics and today's summary were both merged after a power payload.
C18_Witness ==
    \E p \in Callers :
        LET f == call[p] IN
        /\ Returned(f, "battery_data") /\ f.ret = "data"
        /\ f.s2 = "ok" /\ f.s3 = "ok"
        /\ DOMAIN f.power = {"soc", "ppv"}
        /\ f.battery_data["soc"] = f.power["soc"]
        /\ StatsKeys \cup TodayKeys \subseteq DOMAIN f.battery_data

Abs(n) == IF n < 0 THEN -n ELSE n

\* r is a number of two decimal places.
TwoDecimals(r) == r[1] % 1000 = 0

\* r is a two-decimal number nearest to the fraction v times 100.
IsPercentOf(r, v) == TwoDecimals(r) /\ 2 * Abs(r[1] - v[1] * 100) <= 1000

\* r is a two-decimal number nearest to v kilograms divided by 1000.
IsTonsOf(r, v) == TwoDecimals(r) /\ 2 * Abs(r[1] * 1000 - v[1]) <= 1000000

\* C19: in a record into which a today's summary was merged,
\* Self_Consumption and Self_Sufficiency are the source fraction times 100
\* rounded to two decimal places (0.0 gives 0.0 and 1.0 gives 100.0),
\* CO2_Reduction_Tons is the source kilograms divided by 1000 rounded to
\* two decimal places, and each of the three keys is missing when its
\* source field is null.
C19_UnitTransforms ==
    \A p \in Callers :
        LET f == call[p]
            bd == f.battery_data
            sc == Get(f.todayP, "eselfConsumption")
            ss == Get(f.todayP, "eselfSufficiency")
            kg == Get(f.todayP, "carbonNum")
        IN  (Returned(f, "battery_data") /\ f.s3 = "ok")
            => /\ IF sc = None THEN "Self_Consumption" \notin DOMAIN bd
                  ELSE IsPercentOf(Get(bd, "Self_Consumption"), sc)
               /\ IF ss = None THEN "Self_Sufficiency" \notin DOMAIN bd
                  ELSE IsPercentOf(Get(bd, "Self_Sufficiency"), ss)
               /\ IF kg = None THEN "CO2_Reduction_Tons" \notin DOMAIN bd
                  ELSE IsTonsOf(Get(bd, "CO2_Reduction_Tons"), kg)
               /\ sc = Num(0) => Get(bd, "Self_Consumption") = Num(0)
               /\ ss = Num(100000) => Get(bd, "Self_Sufficiency") = Num(10000000)

\* Fractions 0.0 and 1.0 and 5 kg were merged as 0.0, 100.0 and 0.01.
C19_Witness ==
    \E p \in Callers :
        LET f == call[p] IN
        /\ Returned(f, "battery_data") /\ f.s3 = "ok"
        /\ Get(f.todayP, "eselfConsumption") = Num(0)
        /\ Get(f.battery_data, "Self_Consumption") = Num(0)
        /\ Get(f.battery_data, "Self_Sufficiency") = Num(10000000)
        /\ Get(f.battery_data, "CO2_Reduction_Tons") = Num(1000)

\* The vendor code of the last answer read is one of the success codes of
\* login, device list, power data and statistics.
CodeZeroOr200(f) == f.vcode \in {Num(0), Num(200)}

\* The metric names the today's-summary step writes.
TodayNames ==
    TodayKeys \cup {"Self_Consumption", "Self_Sufficiency", "CO2_Reduction_Tons"}

\* C20: an answer of the login, device list, power data or statistics
\* endpoint is taken for a success exactly when its vendor code is 0 or 200;
\* a today's-summary answer is taken for one exactly when its code is 200,
\* and one with code 0 is logged as a warning and adds no today key to the
\* record.
C20_SuccessCodes ==
    \A p \in Callers :
        LET f == call[p] IN
        /\ (f.pc = "fallback" \/ f.lgRet \in {"True", "False"})
           => (CodeZeroOr200(f) <=> (f.lgParsed /\ f.pc # "fallback"))
        /\ (Returned(f, "device_list") /\ f.lgRet = "none")
           => (CodeZeroOr200(f) <=> f.s1 = "ok")
        /\ (/\ f.op = "battery_data" /\ f.pc \in {"stats", "done"}
            /\ f.lgRet = "none" /\ f.s2 = "none")
           => (CodeZeroOr200(f) <=> f.s1 \in {"ok", "null"})
        /\ (/\ f.op = "battery_data" /\ f.pc \in {"today", "done"}
            /\ f.s2 \notin {"none", "OuterDeadline"} /\ f.s3 = "none")
           => (CodeZeroOr200(f) <=> f.s2 \in {"ok", "empty"})
        /\ (f.op = "battery_data" /\ f.s3 \notin {"none", "OuterDeadline"})
           => /\ f.vcode = Num(200) <=> f.s3 \in {"ok", "empty"}
              /\ f.vcode = Num(0)
                 => /\ f.s3 = "code" /\ "today" \in f.warned
                    /\ TodayNames \cap DOMAIN f.battery_data \subseteq DOMAIN f.power

\* Statistics answered with code 0 were merged; the today's summary
\* answered with code 0 was not, and a warning was logged.
C20_Witness ==
    \E p \in Callers :
        LET f == call[p] IN
        /\ Returned(f, "battery_data") /\ f.ret = "data"
        /\ f.s2 = "ok" /\ StatsKeys \subseteq DOMAIN f.battery_data
        /\ f.s3 = "code" /\ f.vcode = Num(0)
        /\ "today" \in f.warned /\ "stats" \notin f.warned
        /\ TodayKeys \cap DOMAIN f.battery_data = {}

\* C17: every invocation of login, getDeviceList and getBatteryData
\* returns in the end, whatever the server answers and however often it
\* answers 401 while the logins succeed.
C17_EveryCallReturns ==
    \A p \in Callers : (call[p].pc # "idle") ~> (call[p].pc = "done")

\* getDeviceList was answered 401 on more passes than the counters count,
\* each re-login succeeding, and has returned None.
C17_Witness ==
    \E p \in Callers :
        LET f == call[p] IN
        /\ Returned(f, "device_list") /\ f.ret = "None"
        /\ f.depth = Max401 /\ f.nRelogin = Max401
        /\ f.nGet = Max401 + 3

\* C21: the step that takes the answer to sub-request 2 or 3, whatever the
\* answer (a 401 included), starts no login and no re-login, sends no POST,
\* begins no new pass and leaves the session token as it is: it sends the
\* next sub-request or returns.  A re-login starts only on a 401 answer to
\* the device-list request or to sub-request 1.
C21_LaterFailuresNoRelogin ==
    [][\A p \in Callers :
        LET f == call[p]
            g == call'[p]
        IN  /\ (f.pc \in {"stats", "today"} /\ g # f) =>
                  /\ token' = token
                  /\ g.nLogin = f.nLogin /\ g.nRelogin = f.nRelogin
                  /\ g.nPost = f.nPost /\ g.depth = f.depth
                  /\ g.pc \in (IF f.pc = "stats" THEN {"today", "done"} ELSE {"done"})
                  /\ g.nGet = f.nGet + (IF g.pc = "today" THEN 1 ELSE 0)
            /\ (g.nRelogin > f.nRelogin) =>
                  /\ f.pc \in {"devices", "power"}
                  /\ g.vstatus = Num(401)
      ]_vars

\* Sub-requests 2 and 3 of a call that held a token failed on their status,
\* the last with a 401: the record was returned after three GETs and no
\* login, the token still the one the requests carried.
C21_Witness ==
    \E p \in Callers :
        LET f == call[p] IN
        /\ Returned(f, "battery_data") /\ f.ret = "data"
        /\ f.s2 = "status" /\ f.s3 = "status" /\ f.vstatus = Num(401)
        /\ f.nLogin = 0 /\ f.nRelogin = 0 /\ f.nGet = 3
        /\ token = f.sent[1]

\* C22: with overlapping callers, every sub-request a pass of
\* getBatteryData has sent carries the bearer token of the headers the pass
\* built before sub-request 1, whatever the session token has become since.
C22_OnePassOneToken ==
    \A p \in Callers :
        LET f == call[p] IN
        f.op = "battery_data" =>
            \A i \in DOMAIN f.sent : f.sent[i] = Bearer(f.hdr)

\* A pass has sent its three sub-requests with the token it started with,
\* while the other caller's re-login after a 401 put another token in the
\* session, which that caller's retried pass carries.
C22_Witness ==
    \E p, q \in Callers :
        LET f == call[p]
            g == call[q]
        IN  /\ p # q
            /\ f.op = "battery_data" /\ f.pc = "today" /\ Len(f.sent) = 3
            /\ f.sent[1] = f.sent[3] /\ f.sent[2] = f.sent[3]
            /\ Truthy(f.sent[3]) /\ f.sent[3] # token
            /\ g.nRelogin = 1 /\ g.depth = 1 /\ g.pc \in {"devices", "power"}
            /\ g.sent[1] = token

====
